---- MODULE Spec2Model ----
(***************************************************************************)
(* Model of the backend of discord-scraper (src/backend/main.py): the      *)
(* paginated history scrape (scrape_messages), the in-memory session map   *)
(* (app.state.channel_messages) and the download endpoints that read it.   *)
(*                                                                         *)
(* Time is counted in ticks; DayTicks ticks make one calendar day.  A      *)
(* message timestamp is a tick, a start_date is a day (or a string that    *)
(* does not parse).  Message ids are snowflakes: a newer message has a     *)
(* larger id.  Fields the code copies verbatim and never reads (content,   *)
(* author, url) are left out of the message records.                       *)
(***************************************************************************)
EXTENDS Integers, Sequences, FiniteSets, TLC

\* ------------------------------------------------------------------ bounds
MaxTs == 3         \* message timestamps are ticks 0..MaxTs
DayTicks == 2      \* ticks per calendar day
MaxLimit == 3      \* message_limit ranges over -1..MaxLimit
PageSize == 2      \* stands for params = {"limit": 100}
MaxRefs == 1       \* messages of one history that carry a referenced_message
MaxClock == 2      \* datetime.utcnow() ranges over 0..MaxClock
MaxStored == 2     \* messages of a stored list that an archive is built from
MaxPending == 2    \* concurrent save_credential calls per token
MaxAtts == 2       \* attachments of such a list, all messages together
StreamChunks == 2  \* chunks iterfile() yields for an archive

\* ------------------------------------------------------- program constants
StatusOK == 200
BadRequest == 400
NotFound == 404
InternalError == 500

Channels == {"A", "B"}

\* The tokens callers save.
Tokens == {"t1", "t2"}

\* Statuses the platform answers a page request with when it does not
\* answer 200.
UpstreamErrors == {403, 500}

Min(a, b) == IF a < b THEN a ELSE b
Max(a, b) == IF a > b THEN a ELSE b

\* Python's s[:n], n of either sign.
Slice(s, n) ==
  IF n >= 0 THEN SubSeq(s, 1, Min(n, Len(s)))
  ELSE SubSeq(s, 1, Max(Len(s) + n, 0))

\* --------------------------------------------------------------- upstream
\* msg.get("referenced_message") of a raw record; present = FALSE is None.
NoRef == [present |-> FALSE, content |-> "", channel_id |-> "", attachments |-> <<>>]

RawRefs ==
  {NoRef} \cup
  {[present |-> TRUE, content |-> c, channel_id |-> ch, attachments |-> <<>>] :
     c \in {"", "text"}, ch \in Channels}

\* What the single-message lookup returns for a referenced message.
FullRef == [content |-> "full", attachments |-> <<"ref.png">>]

\* A message id is a snowflake: it grows with the creation time.
Snowflake(ts) == ts + 1

RECURSIVE SortDesc(_)
SortDesc(S) ==
  IF S = {} THEN <<>>
  ELSE LET m == CHOOSE x \in S : \A y \in S : y <= x
       IN <<m>> \o SortDesc(S \ {m})

RefCount(r) == Cardinality({i \in DOMAIN r : r[i].present})

\* A channel history as the platform serves it: newest first, timestamps
\* strictly decreasing, ids decreasing.
Histories ==
  UNION {
    {[i \in 1..Len(t) |->
        [id |-> Snowflake(t[i]), timestamp |-> t[i], attachments |-> <<>>,
         referenced_message |-> r[i]]] :
       r \in {q \in [1..Len(t) -> RawRefs] : RefCount(q) <= MaxRefs}} :
    t \in {SortDesc(S) : S \in SUBSET (0..MaxTs)}}

\* The histories none of whose messages references another.
PlainHistories == {h \in Histories : \A i \in DOMAIN h : ~h[i].referenced_message.present}

\* GET /channels/{id}/messages?limit=..&before=..: the messages older than
\* the cursor, newest first, at most `limit` of them.
OlderThan(h, prm) ==
  IF "before" \in DOMAIN prm
  THEN SelectSeq(h, LAMBDA m : m.id < prm["before"])
  ELSE h

ServePage(h, prm) ==
  LET o == OlderThan(h, prm) IN SubSeq(o, 1, Min(prm["limit"], Len(o)))

\* --------------------------------------------------------------- requests
BadDate == [valid |-> FALSE, day |-> 0]

StartDates ==
  {[valid |-> TRUE, day |-> d] : d \in 0..((MaxTs \div DayTicks) + 1)} \cup {BadDate}

ScrapeRequests ==
  [channel_id : Channels, start_date : StartDates, message_limit : (-1)..MaxLimit]

\* int(datetime.strptime(start_date, "%Y-%m-%d").timestamp() * 1000):
\* the tick of midnight of that day; ValueError when it does not parse.
ParseStartDate(sd) ==
  IF sd.valid THEN [raised |-> FALSE, value |-> sd.day * DayTicks]
  ELSE [raised |-> TRUE, value |-> 0]

\* Exceptions that reach a handler's outer `except Exception`.
HTTPException(s) == [kind |-> "HTTPException", status_code |-> s]
ClientError == [kind |-> "ClientError", status_code |-> 0]

\* Outcomes of the secondary fetch of a referenced message.
RefOutcomes == {"ok", "non200", "exception"}

VARIABLES
  has_channel_messages,  \* hasattr(app.state, 'channel_messages')
  channel_messages,      \* app.state.channel_messages: channel_id -> list
  pc,                    \* position of the scrape: idle, inflight, sleep, done
  request,               \* the ScrapeRequest being served
  history,               \* the platform's history of every channel
  start_timestamp,
  all_messages,
  params,                \* query of the next page request
  cursors,               \* log: the query of every page request issued
  replies,               \* log: the status of every page reply (0: exception)
  refFetches,            \* log: every secondary fetch issued, with its outcome
  sleeps,                \* log: pacing sleeps completed
  sessionAtStart,        \* the session map when the scrape began
  saved_channels,        \* rows of table saved_channels, in insertion order
  saved_credentials,     \* rows of table saved_credentials, in insertion order
  clock,                 \* datetime.utcnow()
  last_save,             \* the body of the save request served last
  me_status,             \* status of the last /users/@me reply (0: exception)
  validating,            \* save_credential calls awaiting /users/@me, by token
  latest_saved,          \* token of the last save_credential that committed
  notebook,              \* the notebook's fetch: its locals, messages.value, files
  norm,                  \* a raw message under normalization, and the results
  builds,                \* the archive builds in progress, by pipeline
  fs,                    \* the files and directories under TEMP_DIR
  scrapers,              \* the concurrent scrapes, by pipeline
  writes,                \* log: the stores of the concurrent scrapes, in order
  out                    \* the response sent by the step just taken

storeVars ==
  <<saved_channels, saved_credentials, clock, last_save, me_status, validating,
    latest_saved>>

nbVars == <<notebook>>

normVars == <<norm>>
buildVars == <<builds, fs>>
raceVars == <<scrapers, writes>>

\* The state no step of a scrape or of a download touches.
outsideScrape == <<storeVars, normVars, nbVars, nbVars, buildVars, raceVars>>

scrapeVars ==
  <<has_channel_messages, channel_messages, pc, request, history,
    start_timestamp, all_messages, params, cursors, replies, refFetches,
    sleeps, sessionAtStart>>

\* The state no step of the store handlers touches.
outsideStore == <<scrapeVars, normVars, nbVars, buildVars, raceVars>>

vars == <<scrapeVars, outsideScrape, out>>

Session == [has |-> has_channel_messages, map |-> channel_messages]

NoResp ==
  [op |-> "none", channel_id |-> "", status |-> 0, messages |-> <<>>,
   message_count |-> 0]

EmptyMap == [c \in {} |-> <<>>]

\* No request body: the value of last_save before any save.
NoSave == [channel_id |-> "", name |-> "", token |-> ""]

\* Base.metadata.create_all: the tables exist and are empty.
InitStore ==
  /\ saved_channels = <<>>
  /\ saved_credentials = <<>>
  /\ clock = 0
  /\ last_save = NoSave
  /\ me_status = 0
  /\ validating = [t \in Tokens |-> 0]
  /\ latest_saved = ""

\* The notebook before the Start button is pressed: messages.value is the
\* initial value of the state, no file has been written.
IdleNotebook ==
  [pc |-> "idle", limit |-> 0, start_timestamp |-> 0, all_messages |-> <<>>,
   params |-> [k \in {"limit"} |-> PageSize], value |-> <<>>, files |-> <<>>,
   alerts |-> <<>>]

InitNotebook == notebook = IdleNotebook

\* No normalization under way.
InitNorm == norm = [step |-> 0]

\* The archive pipelines: one per download request being served.
Pipes == {1, 2}

NoDir == [channel_id |-> "", timestamp |-> -1]

IdleBuild ==
  [pc |-> "idle", op |-> "", channel_id |-> "", messages |-> <<>>, k |-> 0,
   written |-> 0, archive |-> <<>>, fetches |-> <<>>, temp_dir |-> NoDir,
   status |-> 0, sent |-> 0, transfer |-> ""]

\* os.makedirs(TEMP_DIR, exist_ok=True): the directory exists and, at
\* start-up of a fresh deployment, is empty.
EmptyFs == [files |-> [f \in {} |-> 0], dirs |-> {}, zips |-> {}]

InitBuild == builds = [p \in Pipes |-> IdleBuild] /\ fs = EmptyFs

\* A scrape pipeline that has not received its request.
IdleScraper ==
  [pc |-> "idle",
   request |-> [channel_id |-> "A", start_date |-> BadDate, message_limit |-> 0],
   start_timestamp |-> 0, all_messages |-> <<>>,
   params |-> [k \in {"limit"} |-> PageSize], status |-> 0]

InitRace == scrapers = [p \in Pipes |-> IdleScraper] /\ writes = <<>>

InitOutside == InitStore /\ InitNorm /\ InitNotebook /\ InitBuild /\ InitRace

\* The state after start-up, the platform holding the histories hs.
InitOver(hs) ==
  /\ InitOutside
  /\ history = hs
  /\ has_channel_messages = FALSE
  /\ channel_messages = EmptyMap
  /\ pc = "idle"
  /\ request = [channel_id |-> "A", start_date |-> BadDate, message_limit |-> 0]
  /\ start_timestamp = 0
  /\ all_messages = <<>>
  /\ params = [k \in {"limit"} |-> PageSize]
  /\ cursors = <<>>
  /\ replies = <<>>
  /\ refFetches = <<>>
  /\ sleeps = 0
  /\ sessionAtStart = [has |-> FALSE, map |-> EmptyMap]
  /\ out = NoResp

\* ------------------------------------------------------------- normalizer
\* Mutant of NeedsRefFetch: the channel comparison is lost.
NeedsRefFetchAnyChannel(ref, channel_id) ==
  ref.content = ""

\* if not referenced_content and ref.get("channel_id") != request.channel_id
NeedsRefFetch(ref, channel_id) ==
  ref.content = "" /\ ref.channel_id # channel_id

\* Mutant of ResolveRef: the handler of the secondary fetch does not catch
\* the exception, which reaches the per-message handler.
ResolveRefRaising(ref, outcome) ==
  CASE outcome = "ok" ->
         [raised |-> FALSE, content |-> FullRef.content,
          attachments |-> FullRef.attachments]
    [] outcome = "non200" ->
         [raised |-> FALSE, content |-> ref.content, attachments |-> ref.attachments]
    [] outcome = "exception" ->
         [raised |-> TRUE, content |-> ref.content, attachments |-> ref.attachments]

\* The secondary fetch and its handlers: on 200 content and attachments come
\* from the fetched message; on another status nothing changes; an exception
\* is caught and the content falls back to the embedded one.
ResolveRef(ref, outcome) ==
  CASE outcome = "ok" ->
         [raised |-> FALSE, content |-> FullRef.content,
          attachments |-> FullRef.attachments]
    [] outcome = "non200" ->
         [raised |-> FALSE, content |-> ref.content, attachments |-> ref.attachments]
    [] outcome = "exception" ->
         [raised |-> FALSE, content |-> ref.content, attachments |-> ref.attachments]

\* The referenced_message of the normalized message (None: present = FALSE).
ExtractRef(ref, channel_id, outcome) ==
  IF ~ref.present THEN [raised |-> FALSE, value |-> NoRef]
  ELSE LET r == IF NeedsRefFetch(ref, channel_id)
                THEN ResolveRef(ref, outcome)
                ELSE [raised |-> FALSE, content |-> ref.content,
                      attachments |-> ref.attachments]
       IN [raised |-> r.raised,
           value |-> [present |-> TRUE, content |-> r.content,
                      channel_id |-> ref.channel_id,
                      attachments |-> r.attachments]]

\* message_data of one raw message; raised: an exception left the block and
\* reaches the per-message handler.
Normalize(msg, channel_id, outcome) ==
  LET r == ExtractRef(msg.referenced_message, channel_id, outcome)
  IN [raised |-> r.raised,
      value |-> [id |-> msg.id, timestamp |-> msg.timestamp,
                 channel_id |-> channel_id, attachments |-> msg.attachments,
                 referenced_message |-> r.value]]

\* Mutant of InRange: a message exactly at the boundary is left out.
InRangeStrict(ts, start) == ts > start

\* if msg_timestamp >= start_timestamp
InRange(ts, start) == ts >= start

\* The scan of one page from message i on: an in-range message is normalized
\* and appended (skipped when its normalization raises), the first
\* out-of-range message ends the scan.
RECURSIVE FilterPage(_, _, _, _, _)
FilterPage(page, i, start, channel_id, outs) ==
  IF i > Len(page) THEN <<>>
  ELSE IF InRange(page[i].timestamp, start)
  THEN LET n == Normalize(page[i], channel_id, outs[i])
       IN (IF n.raised THEN <<>> ELSE <<n.value>>)
            \o FilterPage(page, i + 1, start, channel_id, outs)
  ELSE <<>>

\* The secondary fetches that scan issues, in order.
RECURSIVE SecondaryFetches(_, _, _, _, _)
SecondaryFetches(page, i, start, channel_id, outs) ==
  IF i > Len(page) THEN <<>>
  ELSE IF InRange(page[i].timestamp, start)
  THEN LET ref == page[i].referenced_message
       IN (IF ref.present /\ NeedsRefFetch(ref, channel_id)
           THEN <<[id |-> page[i].id, outcome |-> outs[i]]>>
           ELSE <<>>)
            \o SecondaryFetches(page, i + 1, start, channel_id, outs)
  ELSE <<>>

\* The raw record after its normalization: a secondary fetch answered 200
\* assigns ref["attachments"]; the fetched content stays in a local variable.
RawAfter(msg, channel_id, outcome) ==
  LET ref == msg.referenced_message
  IN IF ref.present /\ NeedsRefFetch(ref, channel_id) /\ outcome = "ok"
     THEN [msg EXCEPT !.referenced_message.attachments = FullRef.attachments]
     ELSE msg

\* Raw messages as the platform serves them.
RawMessages ==
  {[id |-> Snowflake(t), timestamp |-> t, attachments |-> <<>>,
    referenced_message |-> r] : t \in 0..MaxTs, r \in RawRefs}

\* The normalizer applied to a raw message served for channel_id.
normalize_first(msg, channel_id, outcome) ==
  /\ norm.step = 0
  /\ norm' = [step |-> 1, channel_id |-> channel_id, original |-> msg,
              raw |-> RawAfter(msg, channel_id, outcome),
              outcomes |-> <<outcome>>,
              first |-> Normalize(msg, channel_id, outcome).value]
  /\ out' = NoResp
  /\ UNCHANGED <<scrapeVars, storeVars, nbVars, buildVars, raceVars>>

\* The normalizer applied again to the same raw record.
normalize_again(outcome) ==
  /\ norm.step = 1
  /\ norm' = [step |-> 2, channel_id |-> norm.channel_id,
              original |-> norm.original,
              raw |-> RawAfter(norm.raw, norm.channel_id, outcome),
              outcomes |-> Append(norm.outcomes, outcome),
              first |-> norm.first,
              second |-> Normalize(norm.raw, norm.channel_id, outcome).value]
  /\ out' = NoResp
  /\ UNCHANGED <<scrapeVars, storeVars, nbVars, buildVars, raceVars>>

\* ----------------------------------------------------------------- scrape
\* Mutant of LoopGuard: the loop does not look at the limit.
LoopGuardUnbounded(all, limit) == TRUE

\* Mutant of LoopGuard: the loop runs once more.
LoopGuardInclusive(all, limit) == Len(all) <= limit

\* while len(all_messages) < request.message_limit
LoopGuard(all, limit) == Len(all) < limit

\* Mutant of PageDecision: a page without survivors does not end the loop.
PageDecisionNoBoundary(new_messages, filtered) ==
  IF new_messages = <<>> THEN "exhausted" ELSE "continue"

\* What happens after a 200 page: empty page and no survivor both break.
PageDecision(new_messages, filtered) ==
  IF new_messages = <<>> THEN "exhausted"
  ELSE IF filtered # <<>> THEN "continue"
  ELSE "boundary"

\* Mutant of NextParams: the cursor is taken from the first message of the
\* raw page instead of the last.
NextParamsFirst(prm, new_messages) ==
  [k \in DOMAIN prm \cup {"before"} |->
     IF k = "before" THEN new_messages[1].id ELSE prm[k]]

\* params["before"] = new_messages[-1]["id"]
NextParams(prm, new_messages) ==
  [k \in DOMAIN prm \cup {"before"} |->
     IF k = "before" THEN new_messages[Len(new_messages)].id ELSE prm[k]]

\* response_data
ScrapeResponse(req, all) ==
  [op |-> "scrape", channel_id |-> req.channel_id, status |-> StatusOK,
   messages |-> Slice(all, req.message_limit), message_count |-> Len(all)]

\* Mutant of StoreMessages: the accumulator is stored without the cut.
StoreMessagesUntruncated(cm, req, all) ==
  [c \in {req.channel_id} |-> all]

\* app.state.channel_messages = {request.channel_id: all_messages[:limit]}:
\* a new dict with this one key; the dict cm held before is not read.
StoreMessages(cm, req, all) ==
  [c \in {req.channel_id} |-> Slice(all, req.message_limit)]

\* The outer handler: except Exception -> HTTPException(status_code=500).
ScrapeBoundary(req, exc) ==
  [op |-> "scrape", channel_id |-> req.channel_id, status |-> InternalError,
   messages |-> <<>>, message_count |-> 0]

\* The code after the loop: build the response, store the list, return.
Complete(req, all) ==
  /\ pc' = "done"
  /\ out' = ScrapeResponse(req, all)
  /\ has_channel_messages' = TRUE
  /\ channel_messages' = StoreMessages(channel_messages, req, all)

\* Mutant of Abort: the list accumulated so far is stored before the
\* exception leaves the handler.
AbortStoringPartial(req, all, exc) ==
  /\ pc' = "done"
  /\ out' = ScrapeBoundary(req, exc)
  /\ has_channel_messages' = TRUE
  /\ channel_messages' = StoreMessages(channel_messages, req, all)

\* An exception leaves the handler: nothing is stored.
Abort(req, all, exc) ==
  /\ pc' = "done"
  /\ out' = ScrapeBoundary(req, exc)
  /\ UNCHANGED <<has_channel_messages, channel_messages>>

\* The head of the loop: issue the next page request, or fall out of it.
LoopHead(req, all, prm, issued) ==
  IF LoopGuard(all, req.message_limit)
  THEN /\ pc' = "inflight"
       /\ cursors' = Append(issued, prm)
       /\ out' = NoResp
       /\ UNCHANGED <<has_channel_messages, channel_messages>>
  ELSE /\ Complete(req, all)
       /\ cursors' = issued

\* POST /api/scrape up to its first await.
scrape_messages(req) ==
  /\ request' = req
  /\ all_messages' = <<>>
  /\ params' = [k \in {"limit"} |-> PageSize]
  /\ replies' = <<>>
  /\ refFetches' = <<>>
  /\ sleeps' = 0
  /\ sessionAtStart' = Session
  /\ UNCHANGED outsideScrape
  /\ LET d == ParseStartDate(req.start_date)
     IN /\ start_timestamp' = d.value
        /\ UNCHANGED history
        /\ IF d.raised
           THEN /\ Abort(req, <<>>, HTTPException(BadRequest))
                /\ cursors' = <<>>
           ELSE LoopHead(req, <<>>, params', <<>>)

\* Mutant of page_reply_ok: the pacing sleep is skipped, the loop goes
\* straight back to its head.
page_reply_ok_unpaced(outs) ==
  /\ pc = "inflight"
  /\ LET new_messages == ServePage(history[request.channel_id], params)
         filtered == FilterPage(new_messages, 1, start_timestamp,
                                request.channel_id, outs)
         decision == PageDecision(new_messages, filtered)
     IN /\ replies' = Append(replies, StatusOK)
        /\ refFetches' = refFetches \o
             SecondaryFetches(new_messages, 1, start_timestamp,
                              request.channel_id, outs)
        /\ IF decision = "continue"
           THEN /\ all_messages' = all_messages \o filtered
                /\ params' = NextParams(params, new_messages)
                /\ LoopHead(request, all_messages', params', cursors)
           ELSE /\ Complete(request, all_messages)
                /\ UNCHANGED <<all_messages, params, cursors>>
  /\ UNCHANGED <<request, history, start_timestamp, sleeps, sessionAtStart>>
  /\ UNCHANGED outsideScrape

\* A page request answered 200 with the page the platform serves for the
\* query; outs are the outcomes of the secondary fetches the scan issues.
page_reply_ok(outs) ==
  /\ pc = "inflight"
  /\ LET new_messages == ServePage(history[request.channel_id], params)
         filtered == FilterPage(new_messages, 1, start_timestamp,
                                request.channel_id, outs)
         decision == PageDecision(new_messages, filtered)
     IN /\ replies' = Append(replies, StatusOK)
        /\ refFetches' = refFetches \o
             SecondaryFetches(new_messages, 1, start_timestamp,
                              request.channel_id, outs)
        /\ IF decision = "continue"
           THEN /\ all_messages' = all_messages \o filtered
                /\ params' = NextParams(params, new_messages)
                /\ pc' = "sleep"
                /\ out' = NoResp
                /\ UNCHANGED <<has_channel_messages, channel_messages>>
           ELSE /\ Complete(request, all_messages)
                /\ UNCHANGED <<all_messages, params>>
  /\ UNCHANGED <<request, history, start_timestamp, cursors, sleeps, sessionAtStart>>
  /\ UNCHANGED outsideScrape

\* A page request answered with another status: raise HTTPException(status).
page_reply_error(s) ==
  /\ pc = "inflight"
  /\ replies' = Append(replies, s)
  /\ Abort(request, all_messages, HTTPException(s))
  /\ UNCHANGED <<request, history, start_timestamp, all_messages, params,
                 cursors, refFetches, sleeps, sessionAtStart>>
  /\ UNCHANGED outsideScrape

\* A page request that raises (connection error, timeout): re-raised.
page_reply_exception ==
  /\ pc = "inflight"
  /\ replies' = Append(replies, 0)
  /\ Abort(request, all_messages, ClientError)
  /\ UNCHANGED <<request, history, start_timestamp, all_messages, params,
                 cursors, refFetches, sleeps, sessionAtStart>>
  /\ UNCHANGED outsideScrape

\* await asyncio.sleep(0.5) returns; the loop guard is evaluated again.
pacing_sleep ==
  /\ pc = "sleep"
  /\ sleeps' = sleeps + 1
  /\ LoopHead(request, all_messages, params, cursors)
  /\ UNCHANGED <<request, history, start_timestamp, all_messages, params,
                 replies, refFetches, sessionAtStart>>
  /\ UNCHANGED outsideScrape

\* ---------------------------------------------------------------- downloads
\* The entry check shared by the three download handlers:
\* not hasattr(app.state, 'channel_messages') or channel_id not in it.
NoData(channel_id) ==
  ~has_channel_messages \/ channel_id \notin DOMAIN channel_messages

\* The handlers' except Exception -> HTTPException(status_code=500).
DownloadBoundary(op, channel_id, exc) ==
  [op |-> op, channel_id |-> channel_id, status |-> InternalError,
   messages |-> <<>>, message_count |-> 0]

\* The handlers' successful response over the stored list.  What the archive
\* holds beyond that list (attachment entries, summary, temporary files) is
\* not part of the response record.
DownloadResponse(op, channel_id, messages) ==
  [op |-> op, channel_id |-> channel_id, status |-> StatusOK,
   messages |-> messages, message_count |-> Len(messages)]

Download(op, channel_id) ==
  /\ out' = IF NoData(channel_id)
            THEN DownloadBoundary(op, channel_id, HTTPException(NotFound))
            ELSE DownloadResponse(op, channel_id, channel_messages[channel_id])
  /\ UNCHANGED <<scrapeVars, outsideScrape>>

\* GET /api/download/json/{channel_id}
download_json(channel_id) == Download("json", channel_id)

\* GET /api/download/attachments/{channel_id}
download_attachments(channel_id) == Download("attachments", channel_id)

\* GET /api/download/dataset/{channel_id}
download_complete_dataset(channel_id) == Download("dataset", channel_id)

DownloadOps == {"json", "attachments", "dataset"}

\* ----------------------------------------------------------------- archives
\* Attachments as the normalizer stores them: {"url": .., "filename": ..}.
\* Two of them share a filename.
Attachments ==
  {[url |-> "u1", filename |-> "a.png"],
   [url |-> "u2", filename |-> "a.png"],
   [url |-> "u3", filename |-> "b.png"]}

\* The body served for an attachment url, in chunks as
\* response.content.read(chunk_size) returns them.
Body(url) == <<url>>

RECURSIVE SumLen(_, _)
SumLen(messages, i) ==
  IF i > Len(messages) THEN 0
  ELSE Len(messages[i].attachments) + SumLen(messages, i + 1)

\* sum(len(msg["attachments"]) for msg in messages)
AttachmentCount(messages) == SumLen(messages, 1)

\* A message as scrape_messages stores it for channel_id.
StoredMessage(channel_id, ts, atts) ==
  [id |-> Snowflake(ts), timestamp |-> ts, channel_id |-> channel_id,
   attachments |-> atts, referenced_message |-> NoRef]

AttachmentSeqs == UNION {[1..n -> Attachments] : n \in 0..MaxAtts}

\* The lists a finished scrape of channel_id can have stored: newest first,
\* timestamps strictly decreasing.
StoredLists(channel_id) ==
  {l \in UNION {
       {[i \in 1..Len(t) |-> StoredMessage(channel_id, t[i], a[i])] :
          a \in [1..Len(t) -> AttachmentSeqs]} :
       t \in {SortDesc(S) : S \in {T \in SUBSET (0..MaxTs) : Cardinality(T) <= MaxStored}}} :
     AttachmentCount(l) <= MaxAtts}

\* The order in which `for msg in messages: for att in msg["attachments"]`
\* visits the attachments: pairs <<message index, attachment index>>.
RECURSIVE Positions(_, _)
Positions(messages, i) ==
  IF i > Len(messages) THEN <<>>
  ELSE [j \in 1..Len(messages[i].attachments) |-> <<i, j>>]
         \o Positions(messages, i + 1)

\* A timestamp as the platform writes it, "<date>T<time>", and back.
IsoTimestamp(ts) == [date |-> ts \div DayTicks, time |-> ts % DayTicks]
ParseIso(iso) == iso.date * DayTicks + iso.time

\* msg["timestamp"].split("T")[0]
DatePart(ts) == IsoTimestamp(ts).date

\* json.dumps of a message list, and json.loads of the document.
JsonRef(ref) ==
  IF ref.present
  THEN [type |-> "object", content |-> ref.content, channel_id |-> ref.channel_id,
        attachments |-> ref.attachments]
  ELSE [type |-> "null"]

JsonMessage(m) ==
  [type |-> "object", id |-> m.id, timestamp |-> IsoTimestamp(m.timestamp),
   channel_id |-> m.channel_id, attachments |-> m.attachments,
   referenced_message |-> JsonRef(m.referenced_message)]

JsonDumps(messages) ==
  [type |-> "array", items |-> [i \in 1..Len(messages) |-> JsonMessage(messages[i])]]

LoadRef(j) ==
  IF j.type = "null" THEN NoRef
  ELSE [present |-> TRUE, content |-> j.content, channel_id |-> j.channel_id,
        attachments |-> j.attachments]

LoadMessage(j) ==
  [id |-> j.id, timestamp |-> ParseIso(j.timestamp), channel_id |-> j.channel_id,
   attachments |-> j.attachments,
   referenced_message |-> LoadRef(j.referenced_message)]

JsonLoads(doc) == [i \in 1..Len(doc.items) |-> LoadMessage(doc.items[i])]

\* The keys of messages_by_date in insertion order: the dates of the list in
\* order of first appearance.
RECURSIVE DateKeys(_, _)
DateKeys(messages, i) ==
  IF i > Len(messages) THEN <<>>
  ELSE LET d == DatePart(messages[i].timestamp)
       IN (IF \E k \in 1..(i - 1) : DatePart(messages[k].timestamp) = d
           THEN <<>> ELSE <<d>>)
            \o DateKeys(messages, i + 1)

\* Mutant of DailyMessages: a date's file keeps only the last message of that
\* date (assignment instead of append).
DailyMessagesLast(messages, date) ==
  LET daily == SelectSeq(messages, LAMBDA m : DatePart(m.timestamp) = date)
  IN IF daily = <<>> THEN <<>> ELSE <<daily[Len(daily)]>>

\* messages_by_date[date]
DailyMessages(messages, date) ==
  SelectSeq(messages, LAMBDA m : DatePart(m.timestamp) = date)

\* An archive entry, what writestr / write adds to the ZIP: a JSON document
\* of messages, the bytes of a file, the lines of the summary or the
\* metadata object; the fields an entry does not use are empty.
NoMeta == [channel_id |-> "", message_count |-> 0]

JsonEntry(name, messages) ==
  [name |-> name, kind |-> "json", doc |-> JsonDumps(messages), body |-> <<>>,
   rows |-> <<>>, meta |-> NoMeta]

FileEntry(name, content) ==
  [name |-> name, kind |-> "file", doc |-> JsonDumps(<<>>), body |-> content,
   rows |-> <<>>, meta |-> NoMeta]

MetaEntry(meta) ==
  [name |-> <<"metadata.json">>, kind |-> "metadata", doc |-> JsonDumps(<<>>),
   body |-> <<>>, rows |-> <<>>, meta |-> meta]

\* summary.csv: one line per message.
SummaryCsv(messages) ==
  [name |-> <<"summary.csv">>, kind |-> "csv", doc |-> JsonDumps(<<>>),
   body |-> <<>>,
   rows |-> [i \in 1..Len(messages) |->
               [date |-> IsoTimestamp(messages[i].timestamp).date,
                time |-> IsoTimestamp(messages[i].timestamp).time,
                attachment_count |-> Len(messages[i].attachments)]],
   meta |-> NoMeta]

\* f"messages/{date}.json"
DateFile(date) == <<"messages", ToString(date) \o ".json">>

AllMessagesFile == <<"messages", "all_messages.json">>

\* The entries download_complete_dataset writes before the attachments.
DatasetHead(channel_id, messages) ==
  LET keys == DateKeys(messages, 1)
  IN <<MetaEntry([channel_id |-> channel_id, message_count |-> Len(messages),
                  attachment_count |-> AttachmentCount(messages)])>>
     \o [k \in 1..Len(keys) |->
           JsonEntry(DateFile(keys[k]), DailyMessages(messages, keys[k]))]
     \o <<JsonEntry(AllMessagesFile, messages)>>

\* The entry download_attachments writes before the attachments.
AttachmentsHead(channel_id, messages) ==
  <<MetaEntry([channel_id |-> channel_id, message_count |-> Len(messages)])>>

\* The path of an attachment inside the archive.
ZipPath(op, channel_id, msg, att) ==
  IF op = "dataset"
  THEN <<"attachments", ToString(DatePart(msg.timestamp)), ToString(msg.id),
         att.filename>>
  ELSE <<channel_id, ToString(msg.id), att.filename>>

\* --- the files under TEMP_DIR
\* open(file_path, "wb") by pipeline p: create the file or truncate it.
OpenWb(files, name, p) ==
  [f \in DOMAIN files \cup {name} |->
     IF f = name
     THEN [content |-> <<>>,
           openers |-> (IF name \in DOMAIN files THEN files[name].openers ELSE {})
                         \cup {p}]
     ELSE files[f]]

\* Writing chunk x at offset off (in chunks) of a file's content.
WriteAt(content, off, x) ==
  [i \in 1..Max(Len(content), off + 1) |->
     IF i = off + 1 THEN x
     ELSE IF i <= Len(content) THEN content[i] ELSE "hole"]

\* f.write(chunk) through the handle p opened: it reaches the file at this
\* path as long as the path still names the file p opened.
WriteChunk(files, name, p, off, x) ==
  IF name \in DOMAIN files /\ p \in files[name].openers
  THEN [files EXCEPT ![name].content = WriteAt(@, off, x)]
  ELSE files

\* Leaving `with open(...)`.
CloseFile(files, name, p) ==
  IF name \in DOMAIN files
  THEN [files EXCEPT ![name].openers = @ \ {p}]
  ELSE files

\* os.remove(file_path)
Remove(files, name) == [f \in DOMAIN files \ {name} |-> files[f]]

\* --- one pipeline
\* The attachment the pipeline is fetching, and the message it belongs to.
CurrentPosition(b) == Positions(b.messages, 1)[b.k + 1]
CurrentMessage(b) == b.messages[CurrentPosition(b)[1]]
CurrentAttachment(b) == CurrentMessage(b).attachments[CurrentPosition(b)[2]]

\* The end of the build: download_attachments returns the buffer;
\* download_complete_dataset adds summary.csv, closes the ZIP and returns the
\* streaming response.
FinishBuild(b) ==
  IF b.op = "dataset"
  THEN [b EXCEPT !.archive = Append(@, SummaryCsv(b.messages)),
                 !.pc = "stream", !.status = StatusOK]
  ELSE [b EXCEPT !.pc = "done", !.status = StatusOK, !.transfer = "complete"]

\* Mutant of NextAttachment: a failed fetch ends the attachment loop.
NextAttachmentStopOnFailure(b, outcome) ==
  LET c == [b EXCEPT !.k = @ + 1, !.written = 0,
                     !.fetches = Append(@, outcome)]
  IN IF c.k < Len(Positions(c.messages, 1)) /\ outcome = "ok"
     THEN [c EXCEPT !.pc = "get"]
     ELSE FinishBuild(c)

\* The attachment loops go on to the next attachment, whatever the outcome
\* of this one, and fall out after the last.
NextAttachment(b, outcome) ==
  LET c == [b EXCEPT !.k = @ + 1, !.written = 0,
                     !.fetches = Append(@, outcome)]
  IN IF c.k < Len(Positions(c.messages, 1))
     THEN [c EXCEPT !.pc = "get"]
     ELSE FinishBuild(c)

\* The first step of the loop over the attachments.
FirstAttachment(b) ==
  IF Positions(b.messages, 1) # <<>>
  THEN [b EXCEPT !.pc = "get"]
  ELSE FinishBuild(b)

\* temp_dir of a dataset build: dataset_{channel_id}_{timestamp}.
TempDir(channel_id, now) == [channel_id |-> channel_id, timestamp |-> now]

\* The handlers' except Exception: 500; download_complete_dataset first
\* removes its temp_dir when it has one.
FailBuild(b) ==
  [b EXCEPT !.pc = "done", !.status = InternalError, !.transfer = "error"]

RmTree(f, dir) ==
  IF dir = NoDir THEN f
  ELSE [f EXCEPT !.dirs = @ \ {dir}, !.zips = @ \ {dir}]

\* A download request arrives: the entry check, then everything up to the
\* first await.  Two dataset builds of one channel started within the same
\* second would share temp_dir and zip_path; a dataset build is admitted
\* only while no other build holds its directory.
build_start(p, op, channel_id) ==
  /\ builds[p].pc = "idle"
  /\ op = "dataset" =>
       \A q \in Pipes \ {p} :
         builds[q].pc = "done" \/ builds[q].temp_dir # TempDir(channel_id, clock)
  /\ IF NoData(channel_id)
     THEN /\ builds' = [builds EXCEPT ![p] =
                          FailBuild([@ EXCEPT !.op = op, !.channel_id = channel_id])]
          /\ UNCHANGED fs
     ELSE LET messages == channel_messages[channel_id]
              dir == TempDir(channel_id, clock)
              b == [builds[p] EXCEPT
                      !.op = op, !.channel_id = channel_id,
                      !.messages = messages,
                      !.temp_dir = IF op = "dataset" THEN dir ELSE NoDir,
                      !.archive = IF op = "dataset"
                                  THEN DatasetHead(channel_id, messages)
                                  ELSE AttachmentsHead(channel_id, messages)]
          IN /\ builds' = [builds EXCEPT ![p] = FirstAttachment(b)]
             /\ fs' = IF op = "dataset"
                      THEN [fs EXCEPT !.dirs = @ \cup {dir}, !.zips = @ \cup {dir}]
                      ELSE fs
  /\ out' = NoResp
  /\ UNCHANGED <<scrapeVars, storeVars, normVars, nbVars, raceVars>>

\* download_attachment: the reply to session.get(url).  On 200 the file is
\* opened; otherwise (another status, a timeout, another exception) the
\* function returns None and the caller goes on.
attachment_reply(p, outcome) ==
  /\ builds[p].pc = "get"
  /\ LET b == builds[p]
         name == CurrentAttachment(b).filename
     IN IF outcome = "ok"
        THEN /\ fs' = [fs EXCEPT !.files = OpenWb(@, name, p)]
             /\ builds' = [builds EXCEPT ![p].pc = "read"]
        ELSE /\ builds' = [builds EXCEPT ![p] = NextAttachment(b, outcome)]
             /\ UNCHANGED fs
  /\ out' = NoResp
  /\ UNCHANGED <<scrapeVars, storeVars, normVars, nbVars, raceVars>>

\* download_attachment: a chunk of the body arrives and is written.
attachment_chunk(p) ==
  /\ builds[p].pc = "read"
  /\ LET b == builds[p]
         att == CurrentAttachment(b)
     IN /\ b.written < Len(Body(att.url))
        /\ fs' = [fs EXCEPT !.files =
                     WriteChunk(@, att.filename, p, b.written,
                                Body(att.url)[b.written + 1])]
        /\ builds' = [builds EXCEPT ![p].written = @ + 1]
  /\ out' = NoResp
  /\ UNCHANGED <<scrapeVars, storeVars, normVars, nbVars, raceVars>>

\* download_attachment: reading the body raises (timeout, connection lost):
\* the file is closed as it is, the function returns None.
attachment_read_fails(p) ==
  /\ builds[p].pc = "read"
  /\ LET b == builds[p]
         name == CurrentAttachment(b).filename
     IN /\ fs' = [fs EXCEPT !.files = CloseFile(@, name, p)]
        /\ builds' = [builds EXCEPT ![p] = NextAttachment(b, "broken")]
  /\ out' = NoResp
  /\ UNCHANGED <<scrapeVars, storeVars, normVars, nbVars, raceVars>>

\* download_attachment: the body is complete, the function returns the
\* path; the caller adds the file to the ZIP and removes it.
\* zip_file.write raises FileNotFoundError when the path is gone.
attachment_eof(p) ==
  /\ builds[p].pc = "read"
  /\ LET b == builds[p]
         att == CurrentAttachment(b)
         name == att.filename
         closed == CloseFile(fs.files, name, p)
     IN /\ b.written = Len(Body(att.url))
        /\ IF name \in DOMAIN closed
           THEN /\ builds' = [builds EXCEPT ![p] =
                     NextAttachment(
                       [b EXCEPT !.archive =
                          Append(@, FileEntry(ZipPath(b.op, b.channel_id,
                                                      CurrentMessage(b), att),
                                              closed[name].content))],
                       "ok")]
                /\ fs' = [fs EXCEPT !.files = Remove(closed, name)]
           ELSE /\ builds' = [builds EXCEPT ![p] = FailBuild(b)]
                /\ fs' = RmTree([fs EXCEPT !.files = closed], b.temp_dir)
  /\ out' = NoResp
  /\ UNCHANGED <<scrapeVars, storeVars, normVars, nbVars, raceVars>>

\* iterfile(): the next chunk of the ZIP is sent.
stream_chunk(p) ==
  /\ builds[p].pc = "stream"
  /\ builds[p].sent < StreamChunks
  /\ builds' = [builds EXCEPT ![p].sent = @ + 1]
  /\ out' = NoResp
  /\ UNCHANGED <<fs, scrapeVars, storeVars, normVars, nbVars, raceVars>>

\* iterfile(): the read loop ends; os.remove(zip_path), os.rmdir(temp_dir).
stream_complete(p) ==
  /\ builds[p].pc = "stream"
  /\ builds[p].sent = StreamChunks
  /\ builds' = [builds EXCEPT ![p].pc = "done", ![p].transfer = "complete"]
  /\ fs' = RmTree(fs, builds[p].temp_dir)
  /\ out' = NoResp
  /\ UNCHANGED <<scrapeVars, storeVars, normVars, nbVars, raceVars>>

\* The client goes away while the ZIP is streamed: the generator is closed
\* at its yield (or never started); the statements after its loop do not
\* run.
stream_cancel(p) ==
  /\ builds[p].pc = "stream"
  /\ builds' = [builds EXCEPT ![p].pc = "done", ![p].transfer = "cancelled"]
  /\ out' = NoResp
  /\ UNCHANGED <<fs, scrapeVars, storeVars, normVars, nbVars, raceVars>>

\* ------------------------------------------------------- concurrent scrapes
\* The locals and logs of the single scrape followed by scrape_messages(req)
\* and its steps; the concurrent scrapes below keep their locals in
\* `scrapers` and share only the session map.
scrapeLocals ==
  <<pc, request, history, start_timestamp, all_messages, params, cursors,
    replies, refFetches, sleeps, sessionAtStart>>

\* The requests of the concurrent scrapes: one channel, valid dates,
\* positive limits.
RaceRequests ==
  {r \in ScrapeRequests :
     r.channel_id = "A" /\ r.start_date.valid /\ r.message_limit >= 1}

\* Histories whose n newest messages carry an attachment each.
RaceHistories ==
  {[i \in 1..(MaxTs + 1) |->
      [id |-> Snowflake(MaxTs + 1 - i), timestamp |-> MaxTs + 1 - i,
       attachments |-> IF i <= n THEN <<[url |-> "u1", filename |-> "a.png"]>>
                       ELSE <<>>,
       referenced_message |-> NoRef]] : n \in 1..MaxAtts}

\* Mutant of SessionAfterPage: the accumulator is published in the session
\* map after every page.
SessionAfterPagePublished(cm, req, all) == StoreMessages(cm, req, all)

\* all_messages.extend(filtered_messages): the accumulator is a local list;
\* the session map is as it was.
SessionAfterPage(cm, req, all) == cm

\* The code after the loop, for pipeline s.
RaceComplete(s, sc) ==
  /\ scrapers' = [scrapers EXCEPT ![s] = [sc EXCEPT !.pc = "done", !.status = StatusOK]]
  /\ has_channel_messages' = TRUE
  /\ channel_messages' = StoreMessages(channel_messages, sc.request, sc.all_messages)
  /\ writes' = Append(writes, [request |-> sc.request,
                               messages |-> Slice(sc.all_messages,
                                                  sc.request.message_limit)])

\* The head of the loop, for pipeline s.
RaceLoopHead(s, sc) ==
  IF LoopGuard(sc.all_messages, sc.request.message_limit)
  THEN /\ scrapers' = [scrapers EXCEPT ![s] = [sc EXCEPT !.pc = "inflight"]]
       /\ UNCHANGED <<has_channel_messages, channel_messages, writes>>
  ELSE RaceComplete(s, sc)

\* POST /api/scrape served by pipeline s, up to its first await.
race_scrape(s, req) ==
  /\ scrapers[s].pc = "idle"
  /\ RaceLoopHead(s, [scrapers[s] EXCEPT
                        !.request = req,
                        !.start_timestamp = ParseStartDate(req.start_date).value])
  /\ out' = NoResp
  /\ UNCHANGED <<scrapeLocals, storeVars, normVars, nbVars, buildVars>>

\* A page request of pipeline s answered 200.
race_page_reply_ok(s) ==
  /\ scrapers[s].pc = "inflight"
  /\ LET sc == scrapers[s]
         new_messages == ServePage(history[sc.request.channel_id], sc.params)
         filtered == FilterPage(new_messages, 1, sc.start_timestamp,
                                sc.request.channel_id,
                                [i \in 1..PageSize |-> "ok"])
         decision == PageDecision(new_messages, filtered)
     IN IF decision = "continue"
        THEN /\ scrapers' = [scrapers EXCEPT ![s] =
                  [sc EXCEPT !.all_messages = @ \o filtered,
                             !.params = NextParams(@, new_messages),
                             !.pc = "sleep"]]
             /\ channel_messages' =
                  SessionAfterPage(channel_messages, sc.request,
                                   sc.all_messages \o filtered)
             /\ UNCHANGED <<has_channel_messages, writes>>
        ELSE RaceComplete(s, sc)
  /\ out' = NoResp
  /\ UNCHANGED <<scrapeLocals, storeVars, normVars, nbVars, buildVars>>

\* A page request of pipeline s answered with another status, or raising:
\* the exception leaves the handler, nothing is stored.
race_page_reply_error(s) ==
  /\ scrapers[s].pc = "inflight"
  /\ scrapers' = [scrapers EXCEPT ![s].pc = "done", ![s].status = InternalError]
  /\ out' = NoResp
  /\ UNCHANGED <<has_channel_messages, channel_messages, writes, scrapeLocals,
                 storeVars, normVars, nbVars, buildVars>>

\* The pacing sleep of pipeline s returns.
race_pacing_sleep(s) ==
  /\ scrapers[s].pc = "sleep"
  /\ RaceLoopHead(s, scrapers[s])
  /\ out' = NoResp
  /\ UNCHANGED <<scrapeLocals, storeVars, normVars, nbVars, buildVars>>

\* -------------------------------------------------------------------- store
\* SaveChannelRequest.name: Optional[str]; NoneName stands for None.
NoneName == "None"
Names == {NoneName, "", "general", "random"}

SaveChannelRequests == [channel_id : Channels, name : Names]
SaveCredentialRequests == [token : Tokens]

\* Statuses the platform answers GET /users/@me with when the token is not
\* accepted.
Unauthorized == 401
MeErrors == {Unauthorized}

\* Python truthiness of request.name.
Truthy(name) == name # NoneName /\ name # ""

\* db.query(T).filter(T.column == value).first(): the index of the first
\* matching row, 0 when there is none.
FirstRow(rows, column, value) ==
  IF \E i \in DOMAIN rows : rows[i][column] = value
  THEN CHOOSE i \in DOMAIN rows :
         /\ rows[i][column] = value
         /\ \A j \in 1..(i - 1) : rows[j][column] # value
  ELSE 0

StoreResponse(op, key, status) ==
  [op |-> op, channel_id |-> key, status |-> status, messages |-> <<>>,
   message_count |-> 0]

\* Mutant of UpsertCredential: the lookup is lost, every save inserts a row.
UpsertCredentialInsertAlways(rows, req, now) ==
  Append(rows, [token |-> req.token, last_used |-> now])

\* Mutant of UpsertChannel: the lookup is lost, every save inserts a row.
UpsertChannelInsertAlways(rows, req, now) ==
  Append(rows, [channel_id |-> req.channel_id,
                name |-> req.name,
                last_used |-> now])

\* The body of save_channel: look the channel up, insert a row when it is
\* not there, set last_used, set the name when the request carries one.
UpsertChannel(rows, req, now) ==
  LET i == FirstRow(rows, "channel_id", req.channel_id)
      added == IF i = 0
               THEN Append(rows, [channel_id |-> req.channel_id,
                                  name |-> req.name, last_used |-> now])
               ELSE rows
      k == IF i = 0 THEN Len(added) ELSE i
  IN [added EXCEPT ![k].last_used = now,
                   ![k].name = IF Truthy(req.name) THEN req.name ELSE @]

\* The body of save_credential after the validation.
UpsertCredential(rows, req, now) ==
  LET i == FirstRow(rows, "token", req.token)
      added == IF i = 0
               THEN Append(rows, [token |-> req.token, last_used |-> now])
               ELSE rows
      k == IF i = 0 THEN Len(added) ELSE i
  IN [added EXCEPT ![k].last_used = now]

\* POST /api/channels/save
save_channel(req) ==
  /\ saved_channels' = UpsertChannel(saved_channels, req, clock)
  /\ last_save' = [channel_id |-> req.channel_id, name |-> req.name, token |-> ""]
  /\ out' = StoreResponse("save_channel", req.channel_id, StatusOK)
  /\ UNCHANGED <<saved_credentials, clock, me_status, validating, latest_saved,
                 outsideStore>>

\* POST /api/credentials/save; status is the platform's answer to the
\* validation request, 0 when the request raises.  The HTTPException(400)
\* is raised inside the try block and reaches `except Exception`.
save_credential(req, status) ==
  /\ me_status' = status
  /\ last_save' = [channel_id |-> "", name |-> "", token |-> req.token]
  /\ IF status = StatusOK
     THEN /\ saved_credentials' = UpsertCredential(saved_credentials, req, clock)
          /\ latest_saved' = req.token
          /\ out' = StoreResponse("save_credential", req.token, StatusOK)
     ELSE /\ UNCHANGED <<saved_credentials, latest_saved>>
          /\ out' = StoreResponse("save_credential", req.token, InternalError)
  /\ UNCHANGED <<saved_channels, clock, validating, outsideStore>>

\* save_credential up to its first await: the validation request is sent.
save_credential_request(req) ==
  /\ validating[req.token] < MaxPending
  /\ validating' = [validating EXCEPT ![req.token] = @ + 1]
  /\ out' = NoResp
  /\ UNCHANGED <<saved_channels, saved_credentials, clock, last_save, me_status,
                 latest_saved, outsideStore>>

\* save_credential from the validation reply to its response: one of the
\* calls awaiting the reply for this token resumes and runs to its end
\* without another await.
save_credential_reply(token, status) ==
  /\ validating[token] > 0
  /\ validating' = [validating EXCEPT ![token] = @ - 1]
  /\ me_status' = status
  /\ last_save' = [channel_id |-> "", name |-> "", token |-> token]
  /\ IF status = StatusOK
     THEN /\ saved_credentials' =
               UpsertCredential(saved_credentials, [token |-> token], clock)
          /\ latest_saved' = token
          /\ out' = StoreResponse("save_credential", token, StatusOK)
     ELSE /\ UNCHANGED <<saved_credentials, latest_saved>>
          /\ out' = StoreResponse("save_credential", token, InternalError)
  /\ UNCHANGED <<saved_channels, clock, outsideStore>>

\* Mutant of LatestRows: the rows are ordered by last_used ascending.
LatestRowsAscending(rows) ==
  {i \in DOMAIN rows : \A j \in DOMAIN rows : rows[j].last_used >= rows[i].last_used}

\* order_by(SavedCredential.last_used.desc()).first(): a row no other row
\* is more recent than; which one among equals is up to the database.
LatestRows(rows) ==
  {i \in DOMAIN rows : \A j \in DOMAIN rows : rows[j].last_used <= rows[i].last_used}

\* GET /api/credentials/latest.  The 404 is raised outside any try block.
get_latest_credential ==
  /\ IF saved_credentials = <<>>
     THEN out' = StoreResponse("get_latest_credential", "", NotFound)
     ELSE \E i \in LatestRows(saved_credentials) :
            out' = StoreResponse("get_latest_credential",
                                 saved_credentials[i].token, StatusOK)
  /\ UNCHANGED <<storeVars, outsideStore>>

\* Time passes.
tick ==
  /\ clock < MaxClock
  /\ clock' = clock + 1
  /\ out' = NoResp
  /\ UNCHANGED <<saved_channels, saved_credentials, last_save, me_status,
                 validating, latest_saved, outsideStore>>

\* ----------------------------------------------------------------- notebook
\* The channel channel_id_input names.
NotebookChannel == "A"

\* message_data: the fields the notebook keeps of a raw message.
MessageData(msg) ==
  [id |-> msg.id, timestamp |-> msg.timestamp,
   attachments |-> [i \in 1..Len(msg.attachments) |->
                      [url |-> msg.attachments[i].url,
                       filename |-> msg.attachments[i].filename]]]

\* The scan of one page from message i on: an in-range message is kept, the
\* first out-of-range message ends the scan.
RECURSIVE FilterMessages(_, _, _)
FilterMessages(page, i, start) ==
  IF i > Len(page) THEN <<>>
  ELSE IF InRange(page[i].timestamp, start)
  THEN <<MessageData(page[i])>> \o FilterMessages(page, i + 1, start)
  ELSE <<>>

Alert(type, status) == [type |-> type, status |-> status]

\* save_data: json.dump(messages.value) into a new file.
save_data(nb) == [nb EXCEPT !.files = Append(@, nb.value)]

\* After the loop: messages.value is assigned the accumulator cut to the
\* limit, and the rest of _handle_scraping saves it when it is not empty.
AfterLoop(nb) ==
  LET stored == [nb EXCEPT !.value = Slice(nb.all_messages, nb.limit),
                           !.pc = "done"]
  IN IF Len(stored.value) > 0
     THEN save_data(stored)
     ELSE [stored EXCEPT !.alerts = Append(@, Alert("warning", 0))]

\* while len(all_messages) < limit_input.value
NotebookLoopHead(nb) ==
  IF Len(nb.all_messages) < nb.limit
  THEN [nb EXCEPT !.pc = "inflight"]
  ELSE AfterLoop(nb)

\* The Start button: _handle_scraping up to the first page request.
\* `present` is whether the token and the channel id are filled in.
handle_scraping(present, sd, limit) ==
  /\ notebook.pc = "idle"
  /\ notebook' =
       IF ~present
       THEN [notebook EXCEPT !.pc = "done",
                             !.alerts = Append(@, Alert("error", 0))]
       ELSE NotebookLoopHead(
              [notebook EXCEPT !.limit = limit,
                               !.start_timestamp = ParseStartDate(sd).value,
                               !.all_messages = <<>>,
                               !.params = [k \in {"limit"} |-> PageSize]])
  /\ out' = NoResp
  /\ UNCHANGED <<scrapeVars, storeVars, normVars, buildVars, raceVars>>

\* fetch_messages: a page request answered 200.
fetch_reply_ok ==
  /\ notebook.pc = "inflight"
  /\ LET new_messages == ServePage(history[NotebookChannel], notebook.params)
         filtered_messages ==
           FilterMessages(new_messages, 1, notebook.start_timestamp)
     IN notebook' =
          IF new_messages # <<>> /\ filtered_messages # <<>>
          THEN [notebook EXCEPT
                  !.all_messages = @ \o filtered_messages,
                  !.params = NextParams(@, new_messages),
                  !.pc = "sleep"]
          ELSE AfterLoop(notebook)
  /\ out' = NoResp
  /\ UNCHANGED <<scrapeVars, storeVars, normVars, buildVars, raceVars>>

\* fetch_messages: a page request answered with another status: an alert,
\* and `break`.
fetch_reply_error(s) ==
  /\ notebook.pc = "inflight"
  /\ notebook' =
       AfterLoop([notebook EXCEPT !.alerts = Append(@, Alert("error", s))])
  /\ out' = NoResp
  /\ UNCHANGED <<scrapeVars, storeVars, normVars, buildVars, raceVars>>

\* fetch_messages: a page request raises; the exception leaves
\* fetch_messages and _handle_scraping.
fetch_reply_exception ==
  /\ notebook.pc = "inflight"
  /\ notebook' = [notebook EXCEPT !.pc = "done",
                                  !.alerts = Append(@, Alert("exception", 0))]
  /\ out' = NoResp
  /\ UNCHANGED <<scrapeVars, storeVars, normVars, buildVars, raceVars>>

\* await asyncio.sleep(0.5), then the head of the loop.
fetch_sleep ==
  /\ notebook.pc = "sleep"
  /\ notebook' = NotebookLoopHead(notebook)
  /\ out' = NoResp
  /\ UNCHANGED <<scrapeVars, storeVars, normVars, buildVars, raceVars>>

\* ---------------------------------------------------------- specifications
\* The steps of a scrape; a scrape request is accepted at the positions in
\* `free` of the one scrape the model follows.
ScrapeSteps(free) ==
  \/ /\ pc \in free
     /\ \E req \in ScrapeRequests : scrape_messages(req)
  \/ /\ pc = "inflight"
     /\ \E outs \in [1..PageSize -> RefOutcomes] : page_reply_ok(outs)
  \/ \E s \in UpstreamErrors : page_reply_error(s)
  \/ page_reply_exception
  \/ pacing_sleep

DownloadSteps ==
  \/ \E c \in Channels : download_json(c)
  \/ \E c \in Channels : download_attachments(c)
  \/ \E c \in Channels : download_complete_dataset(c)

\* Any number of scrapes, one after the other, and downloads at any time,
\* over channels none of whose messages references another.  The channels
\* hold the same timeline: a scrape tags its messages with its channel_id.
Init == \E h \in PlainHistories : InitOver([c \in Channels |-> h])

Next == ScrapeSteps({"idle", "done"}) \/ DownloadSteps

Spec == Init /\ [][Next]_vars

\* One scrape on its own, over a channel whose messages may reference other
\* messages.
InitRefs == \E h \in Histories : InitOver([c \in Channels |-> h])

NextRefs == ScrapeSteps({"idle"})

SpecRefs == InitRefs /\ [][NextRefs]_vars

\* The same, every request of which is eventually answered and every sleep
\* of which eventually returns.
SpecRefsFair == SpecRefs /\ WF_vars(NextRefs)

\* Start-up with no channel history on the platform.
InitEmptyPlatform == InitOver([c \in Channels |-> <<>>])

NextStore ==
  \/ \E req \in SaveChannelRequests : save_channel(req)
  \/ \E req \in SaveCredentialRequests, status \in {StatusOK, 0} \cup MeErrors :
       save_credential(req, status)
  \/ tick

SpecStore == InitEmptyPlatform /\ [][NextStore]_vars

\* The save_channel calls of the concurrent callers: all for one channel.
ConcurrentChannelRequests ==
  {r \in SaveChannelRequests : r.channel_id = "A" /\ r.name \in {NoneName, "general"}}

\* The store under concurrent callers: a save_credential is suspended while
\* the platform validates its token, and the other handlers run meanwhile.
NextStoreConcurrent ==
  \/ \E req \in ConcurrentChannelRequests : save_channel(req)
  \/ \E req \in SaveCredentialRequests : save_credential_request(req)
  \/ \E t \in Tokens, status \in {StatusOK, 0} \cup MeErrors :
       save_credential_reply(t, status)
  \/ get_latest_credential
  \/ tick

\* One run of the notebook, over a channel none of whose messages references
\* another.
NextNotebook ==
  \/ \E present \in BOOLEAN, sd \in StartDates \ {BadDate}, limit \in 1..MaxLimit :
       handle_scraping(present, sd, limit)
  \/ fetch_reply_ok
  \/ \E s \in UpstreamErrors : fetch_reply_error(s)
  \/ fetch_reply_exception
  \/ fetch_sleep

SpecNotebook == Init /\ [][NextNotebook]_vars

SpecStoreConcurrent == InitEmptyPlatform /\ [][NextStoreConcurrent]_vars

\* Time has passed since the last commit: datetime.utcnow() reads later than
\* every last_used stored.
Fresh ==
  \A i \in DOMAIN saved_credentials : saved_credentials[i].last_used < clock

\* Credential saves and retrievals, no two saves reading the same time.
NextLatest ==
  \/ \E req \in SaveCredentialRequests : save_credential_request(req)
  \/ /\ Fresh
     /\ \E t \in Tokens, status \in {StatusOK, 0} \cup MeErrors :
          save_credential_reply(t, status)
  \/ get_latest_credential
  \/ tick

SpecLatest == InitEmptyPlatform /\ [][NextLatest]_vars

\* The normalizer on its own, applied twice to one raw record.
NextNormalize ==
  \/ \E msg \in RawMessages, c \in Channels, o \in RefOutcomes :
       normalize_first(msg, c, o)
  \/ \E o \in RefOutcomes : normalize_again(o)

SpecNormalize == InitEmptyPlatform /\ [][NextNormalize]_vars

\* The state in which a finished scrape of channel_id has stored `stored`
\* and returned.
InitStored(channel_id, stored) ==
  /\ InitOutside
  /\ history = [c \in Channels |-> <<>>]
  /\ has_channel_messages = TRUE
  /\ channel_messages = [c \in {channel_id} |-> stored]
  /\ pc = "idle"
  /\ request = [channel_id |-> "A", start_date |-> BadDate, message_limit |-> 0]
  /\ start_timestamp = 0
  /\ all_messages = <<>>
  /\ params = [k \in {"limit"} |-> PageSize]
  /\ cursors = <<>>
  /\ replies = <<>>
  /\ refFetches = <<>>
  /\ sleeps = 0
  /\ sessionAtStart = [has |-> FALSE, map |-> EmptyMap]
  /\ out = NoResp

\* The steps of the archive pipelines in ps.
BuildSteps(ps) ==
  \/ \E p \in ps, op \in {"attachments", "dataset"}, c \in Channels :
       build_start(p, op, c)
  \/ \E p \in ps, o \in {"ok", "non200", "exception"} : attachment_reply(p, o)
  \/ \E p \in ps : attachment_chunk(p)
  \/ \E p \in ps : attachment_read_fails(p)
  \/ \E p \in ps : attachment_eof(p)
  \/ \E p \in ps : stream_chunk(p)
  \/ \E p \in ps : stream_complete(p)
  \/ \E p \in ps : stream_cancel(p)

InitBuilds == \E l \in StoredLists("A") : InitStored("A", l)

\* One archive build running alone.
NextBuild == BuildSteps({1})

SpecBuild == InitBuilds /\ [][NextBuild]_vars

\* Two archive builds running concurrently over a stored list of one
\* message.
InitBuildsSmall ==
  \E l \in {m \in StoredLists("A") : Len(m) = 1} : InitStored("A", l)

NextBuilds == BuildSteps(Pipes)

SpecBuilds == InitBuildsSmall /\ [][NextBuilds]_vars

\* Two scrapes of one channel running concurrently with each other and
\* with one archive build.
InitRaces == \E h \in RaceHistories : InitOver([c \in Channels |-> h])

RaceSteps ==
  \/ \E s \in Pipes, req \in RaceRequests : race_scrape(s, req)
  \/ \E s \in Pipes : race_page_reply_ok(s)
  \/ \E s \in Pipes : race_page_reply_error(s)
  \/ \E s \in Pipes : race_pacing_sleep(s)

NextRace == RaceSteps \/ BuildSteps({1})

SpecRace == InitRaces /\ [][NextRace]_vars

\* ------------------------------------------------------------------ claims
Ids(s) == [i \in 1..Len(s) |-> s[i].id]

\* The history of the channel of the current request, and the boundary its
\* start_date stands for.
Timeline == history[request.channel_id]
Boundary == request.start_date.day * DayTicks

\* S of C1: all history messages at or after the boundary, newest first.
InRangeHistory == SelectSeq(Timeline, LAMBDA m : m.timestamp >= Boundary)

RawOf(id) == CHOOSE m \in {Timeline[i] : i \in DOMAIN Timeline} : m.id = id

ScrapeSucceeded == out.op = "scrape" /\ out.status = StatusOK

\* The last page request was answered with a failure.
PageFailed == replies # <<>> /\ replies[Len(replies)] # StatusOK

\* The page served for the last page request issued.
LastPage == ServePage(Timeline, cursors[Len(cursors)])

\* The last page request was answered 200 with a page whose first message is
\* older than the boundary.
BoundaryPage ==
  /\ cursors # <<>>
  /\ Len(replies) = Len(cursors)
  /\ replies[Len(replies)] = StatusOK
  /\ LastPage # <<>>
  /\ LastPage[1].timestamp < Boundary

\* C1: a successful scrape with limit >= 0 returns exactly the first
\* min(limit, |S|) messages of S, the newest-first sequence of the history
\* messages at or after the boundary: none missing, none twice, none out of
\* range, in the history's order.
C1_ScrapeReturnsInRangePrefix ==
  (ScrapeSucceeded /\ request.message_limit >= 0) =>
    Ids(out.messages) =
      Ids(SubSeq(InRangeHistory, 1, Min(request.message_limit, Len(InRangeHistory))))

\* A scrape over two pages whose accumulated list was cut to the limit.
C1_Witness ==
  /\ ScrapeSucceeded
  /\ Len(cursors) >= 2
  /\ out.messages # <<>>
  /\ Len(out.messages) = request.message_limit
  /\ Len(InRangeHistory) > request.message_limit

\* C2: a download for a channel_id with no entry in the session map answers
\* 404.
C2_DownloadWithoutEntryIsNotFound ==
  (out.op \in DownloadOps /\ NoData(out.channel_id)) => out.status = NotFound

\* C3: a successful scrape of one channel leaves the entry of every other
\* channel in the session map as it was.
C3_ScrapeChangesOnlyItsEntry ==
  [][(out'.op = "scrape" /\ out'.status = StatusOK) =>
       \A c \in (DOMAIN channel_messages) \ {out'.channel_id} :
         /\ c \in DOMAIN channel_messages'
         /\ channel_messages'[c] = channel_messages[c]]_vars

\* C4: a scrape whose start_date does not parse answers 400 and issues no
\* upstream request.
C4_BadDateIsBadRequest ==
  (out.op = "scrape" /\ ~request.start_date.valid) =>
    (out.status = BadRequest /\ cursors = <<>> /\ refFetches = <<>>)

\* C5: a scrape one of whose page requests was answered with a status other
\* than 200 answers with that status.
C5_UpstreamStatusIsSurfaced ==
  (out.op = "scrape" /\ replies # <<>>
     /\ replies[Len(replies)] \in UpstreamErrors) =>
    out.status = replies[Len(replies)]

\* C6: a scrape one of whose page requests fails returns no messages, leaves
\* the session map as it was when the scrape began, and issues no page
\* request after the failure.
C6_FailedScrapeStoresNothing ==
  PageFailed =>
    /\ pc = "done"
    /\ Len(cursors) = Len(replies)
    /\ \A i \in 1..(Len(replies) - 1) : replies[i] = StatusOK
    /\ Session = sessionAtStart
    /\ out.op = "scrape" =>
         (out.status # StatusOK /\ out.messages = <<>> /\ out.message_count = 0)

\* A page failure after a successful page, with messages accumulated and a
\* list of an earlier scrape in the session map.
C6_Witness ==
  /\ PageFailed
  /\ out.op = "scrape"
  /\ Len(replies) >= 2
  /\ all_messages # <<>>
  /\ sessionAtStart.has
  /\ \E c \in DOMAIN sessionAtStart.map : sessionAtStart.map[c] # <<>>

\* C7: a scrape with a valid start_date and message_limit <= 0 issues no
\* upstream request and returns messages = [] with message_count = 0.
C7_ZeroLimitFetchesNothing ==
  (pc # "idle" /\ request.start_date.valid /\ request.message_limit <= 0) =>
    /\ pc = "done"
    /\ cursors = <<>>
    /\ refFetches = <<>>
    /\ out.op = "scrape" =>
         (out.status = StatusOK /\ out.messages = <<>> /\ out.message_count = 0)

\* A scrape with limit 0 of a channel that holds messages in range.
C7_Witness ==
  /\ ScrapeSucceeded
  /\ request.message_limit = 0
  /\ InRangeHistory # <<>>

\* C8: when the first message of a fetched page is older than the boundary,
\* the page contributes no message, no further page request is issued, and
\* the scrape succeeds with exactly the messages of the earlier pages.
C8_BoundaryPageEndsScrape ==
  BoundaryPage =>
    /\ pc = "done"
    /\ ScrapeSucceeded
    /\ out.messages = all_messages
    /\ out.message_count = Len(all_messages)
    /\ \A i \in DOMAIN all_messages : all_messages[i].id > LastPage[1].id
    /\ Ids(all_messages) =
         Ids(SelectSeq(Timeline,
                       LAMBDA m : m.id > LastPage[1].id /\ m.timestamp >= Boundary))

\* A boundary page reached after a page that contributed messages.
C8_Witness ==
  /\ BoundaryPage
  /\ Len(cursors) >= 2
  /\ out.messages # <<>>

\* The number of secondary fetches issued for the message with this id.
FetchCount(id) == Cardinality({j \in DOMAIN refFetches : refFetches[j].id = id})

\* C9: for a normalized message with a referenced_message the secondary
\* fetch is issued exactly once if the referenced content is empty and its
\* channel_id differs from the request's, and not at all otherwise.
C9_SecondaryFetchExactlyWhenNeeded ==
  /\ \A i \in DOMAIN all_messages :
       LET ref == RawOf(all_messages[i].id).referenced_message
       IN FetchCount(all_messages[i].id) =
            (IF ref.present /\ ref.content = "" /\ ref.channel_id # request.channel_id
             THEN 1 ELSE 0)
  /\ \A j \in DOMAIN refFetches :
       \E i \in DOMAIN all_messages : all_messages[i].id = refFetches[j].id

\* A finished scrape of several messages that issued a secondary fetch.
C9_Witness ==
  /\ pc = "done"
  /\ Len(refFetches) = 1
  /\ Len(all_messages) >= 2

\* The in-range messages of the pages scanned so far.
Scanned ==
  IF "before" \in DOMAIN params
  THEN SelectSeq(Timeline,
                 LAMBDA m : m.id >= params["before"] /\ m.timestamp >= Boundary)
  ELSE <<>>

\* C10: a failed secondary fetch does not fail the scrape and does not drop
\* the referring message: it is emitted with a non-null referenced_message of
\* empty content, and scan and pagination go on as without the fetch.
C10_FailedSecondaryFetchTolerated ==
  /\ \A j \in DOMAIN refFetches :
       refFetches[j].outcome # "ok" =>
         \E i \in DOMAIN all_messages :
           /\ all_messages[i].id = refFetches[j].id
           /\ all_messages[i].referenced_message.present
           /\ all_messages[i].referenced_message.content = ""
  /\ Ids(all_messages) = Ids(Scanned)
  /\ (out.op = "scrape" /\ out.status # StatusOK) =>
       (~request.start_date.valid \/ PageFailed)

\* A scrape that went on to a further page after a secondary fetch raised,
\* and succeeded.
C10_Witness ==
  /\ ScrapeSucceeded
  /\ Len(cursors) >= 2
  /\ \E j \in DOMAIN refFetches :
       /\ refFetches[j].outcome = "exception"
       /\ refFetches[j].id = all_messages[1].id

\* The raw page the platform served for the k-th page request of the scrape.
RawPage(k) == ServePage(Timeline, cursors[k])

\* C19: the first page request of a scrape carries no `before` cursor, and
\* every later one carries `before` equal to the id of the last message of
\* the raw page the preceding request returned.
C19_CursorIsLastIdOfRawPage ==
  \A k \in DOMAIN cursors :
    IF k = 1 THEN "before" \notin DOMAIN cursors[k]
    ELSE /\ "before" \in DOMAIN cursors[k]
         /\ RawPage(k - 1) # <<>>
         /\ cursors[k]["before"] = RawPage(k - 1)[Len(RawPage(k - 1))].id

\* A second page request issued after a page whose last message was older
\* than the boundary and did not survive the filter.
C19_Witness ==
  /\ Len(cursors) >= 2
  /\ RawPage(1)[Len(RawPage(1))].timestamp < Boundary
  /\ Len(all_messages) < Len(RawPage(1))

\* C20: the page requests of a scrape are sequential and paced: at most one
\* is in flight, a request is in flight exactly while the scrape waits for
\* its reply, and when the k-th request is issued exactly k - 1 pacing
\* sleeps have been executed, one after each earlier reply.
C20_PageRequestsSequentialAndPaced ==
  /\ Len(cursors) - Len(replies) \in {0, 1}
  /\ (pc = "inflight") <=> (Len(cursors) = Len(replies) + 1)
  /\ pc \in {"inflight", "sleep"} => sleeps = Len(cursors) - 1
  /\ pc = "done" => sleeps \in {Max(Len(cursors) - 1, 0), Len(cursors)}

\* A second page request in flight, one sleep executed since the first reply.
C20_Witness ==
  /\ pc = "inflight"
  /\ Len(cursors) = 2
  /\ Len(replies) = 1
  /\ sleeps = 1

\* The rows stored for a channel_id, for a token.
ChannelRows(rows, c) == {i \in DOMAIN rows : rows[i].channel_id = c}
TokenRows(rows, t) == {i \in DOMAIN rows : rows[i].token = t}

AtMostOneRowPerKey(channels, credentials) ==
  /\ \A c \in Channels : Cardinality(ChannelRows(channels, c)) <= 1
  /\ \A t \in Tokens : Cardinality(TokenRows(credentials, t)) <= 1

\* C14 as claimed: after a save_channel the store holds exactly one record
\* for that channel_id, with the name of this save and last_used the time of
\* this save, and at most one record per channel_id and per token.
C14_SaveChannelKeepsLatestName ==
  /\ AtMostOneRowPerKey(saved_channels, saved_credentials)
  /\ out.op = "save_channel" =>
       /\ Cardinality(ChannelRows(saved_channels, last_save.channel_id)) = 1
       /\ \A i \in ChannelRows(saved_channels, last_save.channel_id) :
            /\ saved_channels[i].name = last_save.name
            /\ saved_channels[i].last_used = clock

\* C14 as amended: the record's name is the name of this save when that
\* name is non-empty (or when the channel was not stored before), and the
\* name stored before when this save carries no name or an empty one.
C14_SaveChannelUpsert ==
  [][/\ AtMostOneRowPerKey(saved_channels', saved_credentials')
     /\ out'.op = "save_channel" =>
          LET c == last_save'.channel_id
              old == FirstRow(saved_channels, "channel_id", c)
          IN /\ Cardinality(ChannelRows(saved_channels', c)) = 1
             /\ \A i \in ChannelRows(saved_channels', c) :
                  /\ saved_channels'[i].last_used = clock'
                  /\ saved_channels'[i].name =
                       IF Truthy(last_save'.name) \/ old = 0
                       THEN last_save'.name
                       ELSE saved_channels[old].name
             /\ Len(saved_channels') = Len(saved_channels) + (IF old = 0 THEN 1 ELSE 0)]_vars

\* A channel saved a second time, later and under another name, while the
\* other channel is stored too.
C14_Witness ==
  /\ out.op = "save_channel"
  /\ Len(saved_channels) = 2
  /\ \E i \in DOMAIN saved_channels :
       /\ i = 1
       /\ saved_channels[i].channel_id = last_save.channel_id
       /\ saved_channels[i].name = "random"
       /\ saved_channels[i].last_used = MaxClock
  /\ last_save.name = "random"

\* C15: a save_credential whose validation request is answered with a
\* status other than 200 writes nothing to the store and answers 400.
C15_InvalidTokenIsBadRequest ==
  [][(out'.op = "save_credential" /\ me_status' \in MeErrors) =>
       /\ saved_credentials' = saved_credentials
       /\ out'.status = BadRequest]_vars

\* C18: normalizing the same raw message twice for the same request channel
\* yields identical Message values, also when the first normalization
\* performed a secondary fetch.
C18_NormalizeTwiceIsIdentical ==
  norm.step = 2 => norm.second = norm.first

\* The builds that found their channel in the session map.
Built(b) == b.pc # "idle" /\ ~(b.status = InternalError /\ b.archive = <<>>)

\* The indices of the archive's entries with this name, and of its
\* messages/<date>.json entries.
EntriesNamed(archive, name) == {e \in DOMAIN archive : archive[e].name = name}
DateEntries(archive) ==
  {e \in DOMAIN archive :
     archive[e].kind = "json" /\ archive[e].name # AllMessagesFile}

\* How often message m occurs in the document of an entry.
Occurrences(entry, m) ==
  Cardinality({i \in DOMAIN JsonLoads(entry.doc) : JsonLoads(entry.doc)[i] = m})

\* C11: in a full-dataset archive messages/all_messages.json deserializes to
\* the stored list, in order; every message of the list is in exactly one
\* messages/<date>.json, the one of the date portion of its timestamp, once;
\* and the date files hold nothing but messages of the list.
C11_DatasetRoundTrip ==
  \A p \in Pipes :
    LET b == builds[p]
        stored == channel_messages[b.channel_id]
    IN (b.op = "dataset" /\ Built(b)) =>
         /\ Cardinality(EntriesNamed(b.archive, AllMessagesFile)) = 1
         /\ \A e \in EntriesNamed(b.archive, AllMessagesFile) :
              JsonLoads(b.archive[e].doc) = stored
         /\ \A i \in DOMAIN stored :
              LET home == DateFile(DatePart(stored[i].timestamp))
              IN /\ Cardinality(EntriesNamed(b.archive, home)) = 1
                 /\ \A e \in DateEntries(b.archive) :
                      Occurrences(b.archive[e], stored[i]) =
                        (IF b.archive[e].name = home THEN 1 ELSE 0)
         /\ \A e \in DateEntries(b.archive) :
              \A m \in {JsonLoads(b.archive[e].doc)[i] :
                           i \in DOMAIN JsonLoads(b.archive[e].doc)} :
                \E i \in DOMAIN stored : stored[i] = m

\* A dataset archive of two messages of the same date, delivered.
C11_Witness ==
  \E p \in Pipes :
    /\ builds[p].op = "dataset"
    /\ builds[p].pc = "done"
    /\ builds[p].transfer = "complete"
    /\ Len(builds[p].messages) = 2
    /\ DatePart(builds[p].messages[1].timestamp) =
         DatePart(builds[p].messages[2].timestamp)

\* The file entries a build has when each attachment fetched so far is in
\* the archive exactly if its fetch succeeded, from attachment k on.
RECURSIVE FetchedFiles(_, _)
FetchedFiles(b, k) ==
  IF k > Len(b.fetches) THEN <<>>
  ELSE LET pos == Positions(b.messages, 1)[k]
           msg == b.messages[pos[1]]
           att == msg.attachments[pos[2]]
       IN (IF b.fetches[k] = "ok"
           THEN <<FileEntry(ZipPath(b.op, b.channel_id, msg, att), Body(att.url))>>
           ELSE <<>>)
            \o FetchedFiles(b, k + 1)

FileEntries(archive) == SelectSeq(archive, LAMBDA e : e.kind = "file")

\* C12: a build whose attachment fetches fail still completes with a
\* successful response; every attachment of the list is attempted, and the
\* archive holds an entry for an attachment exactly if its fetch succeeded.
C12_FailedAttachmentIsSkipped ==
  \A p \in Pipes :
    LET b == builds[p]
    IN /\ Built(b) => FileEntries(b.archive) = FetchedFiles(b, 1)
       /\ (Built(b) /\ b.pc \in {"stream", "done"}) =>
            /\ b.status = StatusOK
            /\ Len(b.fetches) = AttachmentCount(b.messages)

\* A build that went on after a failed fetch and added the next attachment.
C12_Witness ==
  \E p \in Pipes :
    /\ builds[p].pc = "done"
    /\ builds[p].status = StatusOK
    /\ Len(builds[p].fetches) = 2
    /\ builds[p].fetches[1] # "ok"
    /\ builds[p].fetches[2] = "ok"
    /\ Len(FileEntries(builds[p].archive)) = 1

\* C13: once a full-dataset download has ended (transfer complete, error
\* during the build, or transfer cancelled), the temporary directory and the
\* ZIP it created do not exist.
C13_TempDirRemovedOnEveryExit ==
  \A p \in Pipes :
    (builds[p].op = "dataset" /\ builds[p].pc = "done") =>
      /\ builds[p].temp_dir \notin fs.dirs
      /\ builds[p].temp_dir \notin fs.zips

\* The archive a build produces when it runs alone, given the outcomes of
\* its own fetches.
AloneArchive(b) ==
  (IF b.op = "dataset"
   THEN DatasetHead(b.channel_id, b.messages)
   ELSE AttachmentsHead(b.channel_id, b.messages))
    \o FetchedFiles(b, 1)
    \o (IF b.op = "dataset" THEN <<SummaryCsv(b.messages)>> ELSE <<>>)

\* C17: a build that runs concurrently with another ends with the outcome
\* and the archive it would have produced alone.
C17_ConcurrentBuildsAreIndependent ==
  \A p \in Pipes :
    LET b == builds[p]
    IN b.pc \in {"stream", "done"} =>
         IF NoData(b.channel_id)
         THEN b.status = InternalError
         ELSE /\ b.status = StatusOK
              /\ Len(b.fetches) = AttachmentCount(b.messages)
              /\ b.archive = AloneArchive(b)

\* The complete, truncated result of a scrape of the platform's history for
\* request req: the first min(limit, |S|) in-range messages, normalized.
CompleteResult(req) ==
  LET h == history[req.channel_id]
      S == SelectSeq(h, LAMBDA m :
                          m.timestamp >= ParseStartDate(req.start_date).value)
      n == Min(req.message_limit, Len(S))
  IN [i \in 1..n |-> Normalize(S[i], req.channel_id, "ok").value]

\* C16: a download racing with scrapes of its channel serves the complete
\* result of one finished scrape: the list it builds its archive from is a
\* list some finished scrape stored, every stored list is the complete
\* truncated result of its scrape, the archive is built from that one list,
\* and the entry in the session map is the result of the scrape that wrote
\* last.
C16_DownloadServesOneFinishedScrape ==
  /\ \A w \in DOMAIN writes : writes[w].messages = CompleteResult(writes[w].request)
  /\ \A p \in Pipes :
       LET b == builds[p]
       IN Built(b) =>
            /\ \E w \in DOMAIN writes :
                 /\ writes[w].request.channel_id = b.channel_id
                 /\ writes[w].messages = b.messages
            /\ b.archive[1].meta.message_count = Len(b.messages)
            /\ FileEntries(b.archive) = FetchedFiles(b, 1)
  /\ IF writes = <<>>
     THEN ~has_channel_messages /\ channel_messages = EmptyMap
     ELSE /\ has_channel_messages
          /\ channel_messages =
               [c \in {writes[Len(writes)].request.channel_id} |->
                  writes[Len(writes)].messages]

\* A download that read the result of the first scrape and delivered its
\* archive, attachment included, after a second scrape had stored another
\* result.
C16_Witness ==
  /\ Len(writes) = 2
  /\ writes[1].messages # writes[2].messages
  /\ builds[1].pc = "done"
  /\ builds[1].status = StatusOK
  /\ builds[1].messages = writes[1].messages
  /\ Len(builds[1].fetches) >= 1
  /\ builds[1].fetches[1] = "ok"
  /\ channel_messages["A"] = writes[2].messages

\* Every page that continued the loop added a message, a request is only in
\* flight while the accumulator is short of the limit, and no more requests
\* were issued than the limit.
RequestsWithinLimit ==
  /\ Len(cursors) <= Max(request.message_limit, 0)
  /\ pc = "inflight" => Len(all_messages) < request.message_limit
  /\ Len(all_messages) >= Len(cursors) - 1
  /\ pc = "sleep" => Len(all_messages) >= Len(cursors)

\* C21: a scrape issues at most L page requests for limit L (none for a
\* negative L), never one when the accumulator holds L or more messages,
\* every iteration that goes on has added a message, and a scrape whose
\* requests are answered terminates.
C21_ScrapeTerminatesWithinLimit ==
  /\ []RequestsWithinLimit
  /\ (pc # "idle") ~> (pc = "done")

\* A scrape that issued as many page requests as its limit allows, the
\* first page having contributed a single message.
C21_Witness ==
  /\ pc = "done"
  /\ request.message_limit = 2
  /\ Len(cursors) = 2
  /\ Len(all_messages) = 1

\* C22: in a successful scrape response message_count is the number of
\* messages in `messages`, and so at most message_limit.
C22_MessageCountIsLengthOfMessages ==
  ScrapeSucceeded =>
    /\ out.message_count = Len(out.messages)
    /\ request.message_limit >= 0 => out.message_count <= request.message_limit

\* C23 as claimed: after a successful scrape of channel c with limit L the
\* entry of c is the list the response returned and is at most L long, and
\* a list enters the session map only as the list a successful scrape of its
\* channel returned.
C23_EntryIsReturnedListWithinLimit ==
  [][/\ (out'.op = "scrape" /\ out'.status = StatusOK) =>
          /\ has_channel_messages'
          /\ out'.channel_id \in DOMAIN channel_messages'
          /\ channel_messages'[out'.channel_id] = out'.messages
          /\ Len(channel_messages'[out'.channel_id]) <= request'.message_limit
     /\ \A c \in DOMAIN channel_messages' :
          (c \notin DOMAIN channel_messages
             \/ channel_messages'[c] # channel_messages[c]) =>
            /\ out'.op = "scrape" /\ out'.status = StatusOK
            /\ out'.channel_id = c
            /\ out'.messages = channel_messages'[c]]_vars

\* C23 as amended: the same, the entry being at most max(L, 0) long.
C23_EntryIsReturnedList ==
  [][/\ (out'.op = "scrape" /\ out'.status = StatusOK) =>
          /\ has_channel_messages'
          /\ out'.channel_id \in DOMAIN channel_messages'
          /\ channel_messages'[out'.channel_id] = out'.messages
          /\ Len(channel_messages'[out'.channel_id]) <=
               Max(request'.message_limit, 0)
     /\ \A c \in DOMAIN channel_messages' :
          (c \notin DOMAIN channel_messages
             \/ channel_messages'[c] # channel_messages[c]) =>
            /\ out'.op = "scrape" /\ out'.status = StatusOK
            /\ out'.channel_id = c
            /\ out'.messages = channel_messages'[c]]_vars

\* A successful scrape whose accumulator was cut to the limit before it was
\* stored, replacing the list of an earlier scrape of the channel.
C23_Witness ==
  /\ ScrapeSucceeded
  /\ Len(all_messages) > request.message_limit
  /\ out.messages # <<>>
  /\ channel_messages[request.channel_id] = out.messages
  /\ sessionAtStart.has
  /\ request.channel_id \in DOMAIN sessionAtStart.map
  /\ sessionAtStart.map[request.channel_id] # out.messages

\* The names under the temp directory a build has had download_attachment
\* open so far.
WrittenNames(b) ==
  {b.messages[Positions(b.messages, 1)[k][1]]
      .attachments[Positions(b.messages, 1)[k][2]].filename :
     k \in {i \in 1..Len(b.fetches) : b.fetches[i] \in {"ok", "broken"}}}

\* C24: when an archive build has ended, by success or by failure, no file
\* download_attachment wrote for it remains under the temp directory.
C24_AttachmentFilesReleased ==
  \A p \in Pipes :
    builds[p].pc = "done" => WrittenNames(builds[p]) \cap DOMAIN fs.files = {}

\* The step is the completion of a save that committed.
ChannelSaved == out'.op = "save_channel"
CredentialSaved == out'.op = "save_credential" /\ me_status' = StatusOK

\* C25: with save_channel and save_credential calls interleaved at every
\* await, every save_channel call, and every save_credential call whose
\* token the platform accepts, answers 200 and leaves exactly one row for
\* its key, whose last_used is the time of this save; no other step touches
\* the tables, and no key ever has two rows.
C25_UpsertsSafeUnderConcurrentCallers ==
  [][/\ ChannelSaved =>
          /\ out'.status = StatusOK
          /\ Cardinality(ChannelRows(saved_channels', out'.channel_id)) = 1
          /\ \A i \in ChannelRows(saved_channels', out'.channel_id) :
               saved_channels'[i].last_used = clock'
     /\ CredentialSaved =>
          /\ out'.status = StatusOK
          /\ Cardinality(TokenRows(saved_credentials', out'.channel_id)) = 1
          /\ \A i \in TokenRows(saved_credentials', out'.channel_id) :
               saved_credentials'[i].last_used = clock'
     /\ ~ChannelSaved => saved_channels' = saved_channels
     /\ ~CredentialSaved => saved_credentials' = saved_credentials
     /\ AtMostOneRowPerKey(saved_channels', saved_credentials')]_vars

\* A save_credential that committed at a later time than the row of its
\* token was created, while another call for the same token is awaiting its
\* validation.
C25_Witness ==
  /\ out.op = "save_credential"
  /\ out.status = StatusOK
  /\ validating[out.channel_id] = 1
  /\ clock > 0
  /\ Len(saved_credentials) = 2
  /\ saved_credentials[1].token = out.channel_id
  /\ saved_credentials[1].last_used = clock
  /\ saved_credentials[2].last_used < clock

\* C26: get_latest_credential answers 404 exactly when no save_credential
\* has committed, and otherwise answers 200 with the token of the save that
\* committed last, also when that save refreshed a row stored earlier.
C26_LatestIsMostRecentSave ==
  out.op = "get_latest_credential" =>
    /\ out.status = NotFound <=> latest_saved = ""
    /\ out.status # NotFound =>
         out.status = StatusOK /\ out.channel_id = latest_saved

\* The latest credential is asked for after the token stored first was
\* saved again, later than the token stored second.
C26_Witness ==
  /\ out.op = "get_latest_credential"
  /\ out.status = StatusOK
  /\ Len(saved_credentials) = 2
  /\ saved_credentials[1].token = latest_saved
  /\ saved_credentials[1].last_used > saved_credentials[2].last_used

\* C27: when a page request of the notebook's fetch is answered with a
\* status other than 200, the messages of the earlier pages are not stored
\* in messages.value and no file is saved.
C27_FailedFetchDiscardsMessages ==
  (/\ notebook.pc = "done"
   /\ \E i \in DOMAIN notebook.alerts :
        notebook.alerts[i].type = "error" /\ notebook.alerts[i].status # 0)
    => notebook.value = <<>> /\ notebook.files = <<>>

====
